---------------------------- MODULE Spec2Model ----------------------------
(***************************************************************************)
(* SoapySDR input driver of dumphfdl (src/input-soapysdr.c).               *)
(*                                                                         *)
(* Two state machines share the variables:                                 *)
(*   Spec        soapysdr_input_init, with soapysdr_choose_sample_format   *)
(*               (device configuration and sample-format negotiation);     *)
(*   SpecThread  soapysdr_input_thread (capture loop and teardown), with   *)
(*               the external controller that sets do_exit.                *)
(*                                                                         *)
(* Strings are TLA+ strings, the null pointer of a char* is "NULL".        *)
(* Floating-point values (full scale) are counted in halves, so that       *)
(* 127.5 is 255 and 1.0 is 2; only their sign and identity matter.         *)
(* Every SoapySDR call the code makes is recorded in a log, in call order, *)
(* with its argument and the value the device returned.                    *)
(***************************************************************************)
EXTENDS Integers, Sequences, FiniteSets, TLC

\* ------------------------------------------------------------------ bounds
MaxFormats == 2     \* longest list returned by getStreamFormats
MaxPairs   == 2     \* most name=value segments in a gain or settings string
MaxReads   == 3     \* most readStream calls of one worker lifetime
MaxMTU     == 2     \* largest stream MTU (samples per read)

\* ------------------------------------------------ helpers outside this file
AUTO_GAIN == -100

SFMT_UNDEF == "SFMT_UNDEF"

KnownKinds == {"SFMT_CU8", "SFMT_CS16", "SFMT_CF32"}

sample_format_from_string(s) ==
    CASE s = "CU8"  -> "SFMT_CU8"
      [] s = "CS16" -> "SFMT_CS16"
      [] s = "CF32" -> "SFMT_CF32"
      [] OTHER      -> SFMT_UNDEF

get_sample_size(sfmt) ==
    CASE sfmt = "SFMT_CU8"  -> 2
      [] sfmt = "SFMT_CS16" -> 4
      [] sfmt = "SFMT_CF32" -> 8
      [] OTHER              -> 0

\* in halves: 127.5, 32767.5, 1.0
get_sample_full_scale_value(sfmt) ==
    CASE sfmt = "SFMT_CU8"  -> 255
      [] sfmt = "SFMT_CS16" -> 65535
      [] sfmt = "SFMT_CF32" -> 2
      [] OTHER              -> 0

\* SoapySDRKwargs_fromString: a string is a sequence of comma-separated
\* segments key=val; a segment with an empty key yields no pair.
RECURSIVE SoapySDRKwargs_fromString(_)
SoapySDRKwargs_fromString(segs) ==
    IF segs = << >> THEN << >>
    ELSE IF Head(segs).key = ""
         THEN SoapySDRKwargs_fromString(Tail(segs))
         ELSE << Head(segs) >> \o SoapySDRKwargs_fromString(Tail(segs))

\* ------------------------------------------------------------- input sets
\* Wire-format identifiers a device may name; CS8 maps to no logical kind.
FormatNames == {"CF32", "CS16", "CS8"}

\* SoapySDR_formatToSize as the device's library reports it.
SizeFunctions ==
    { f \in [FormatNames -> {2, 4, 8}] :
        f["CS8"] = 2 /\ f["CS16"] \in {4, 8} /\ f["CF32"] \in {4, 8} }

RECURSIVE SeqsUpTo(_, _)
SeqsUpTo(S, n) ==
    IF n = 0 THEN { << >> }
    ELSE LET shorter == SeqsUpTo(S, n - 1)
         IN  shorter \cup { Append(s, x) : s \in shorter, x \in S }

NoRepeat(s) == \A i, j \in 1..Len(s) : i # j => s[i] # s[j]

FormatLists ==
    { [null |-> TRUE, list |-> << >>] } \cup
    { [null |-> FALSE, list |-> s] :
        s \in { t \in SeqsUpTo(FormatNames, MaxFormats) : NoRepeat(t) } }

AllDevices ==
    [native : FormatNames, fullscale : {0, 3}, formats : FormatLists,
     size : SizeFunctions]

\* a device with a usable native format, one that needs the fallback list,
\* and one with nothing usable
FewDevices ==
    { d \in AllDevices :
        /\ d.size["CS16"] = 4 /\ d.size["CF32"] = 8
        /\ d.formats = [null |-> FALSE, list |-> << "CS8", "CS16" >>]
        /\ d.fullscale = 3
        /\ d.native \in {"CS16", "CS8"} }
    \cup
    { d \in AllDevices :
        /\ d.size["CS16"] = 4 /\ d.size["CF32"] = 8
        /\ d.formats = [null |-> FALSE, list |-> << >>]
        /\ d.fullscale = 0
        /\ d.native = "CS8" }

GainPool     == << [key |-> "LNA", val |-> 20], [key |-> "VGA", val |-> 10],
                   [key |-> "AMP", val |-> 5],  [key |-> "TIA", val |-> 3] >>
SettingsPool == << [key |-> "biastee", val |-> "true"],
                   [key |-> "agc",     val |-> "false"],
                   [key |-> "rfnotch", val |-> "true"],
                   [key |-> "iqswap",  val |-> "false"] >>

\* option strings: absent (NULL), empty, one malformed segment, or the
\* first k segments of the pool
OptionStrings(pool, badval) ==
    { [null |-> TRUE,  segs |-> << >>],
      [null |-> FALSE, segs |-> << >>],
      [null |-> FALSE, segs |-> << [key |-> "", val |-> badval] >>] }
    \cup { [null |-> FALSE, segs |-> SubSeq(pool, 1, k)] : k \in 1..MaxPairs }

AllConfigs ==
    [source : {"driver=x"}, sample_rate : {250}, centerfreq : {10},
     freq_offset : {1}, correction : {0},
     gain_elements : OptionStrings(GainPool, 0),
     gain : {AUTO_GAIN, 30},
     antenna : {"NULL", "RX"},
     device_settings : OptionStrings(SettingsPool, "x")]

FewConfigs ==
    { c \in AllConfigs :
        /\ c.gain_elements.null /\ c.device_settings.null
        /\ c.antenna = "NULL" }

\* ------------------------------------------------------------------ state
VARIABLES
    cfg,              \* input->config (cfg->sfmt is cfg_sfmt)
    dev,              \* the device's format capabilities
    ipc,              \* position of soapysdr_input_init
    ret,              \* its return value, "none" while it runs
    sdr,              \* local sdr of init: "NULL" or "dev"
    devOpen,          \* a device handle made and not yet unmade
    streamOpen,       \* a stream set up and not yet closed
    calls,            \* SoapySDR calls made so far, in order
    chosen,           \* local chosen of init
    queriedList,      \* negotiation called getStreamFormats
    cfg_sfmt,         \* cfg->sfmt
    full_scale,       \* input->full_scale
    bytes_per_sample, \* input->bytes_per_sample
    max_tu,           \* input->block.producer.max_tu
    si_sdr,           \* soapysdr_input->sdr
    si_stream         \* soapysdr_input->stream

ivars == << cfg, dev, ipc, ret, sdr, devOpen, streamOpen, calls, chosen,
            queriedList, cfg_sfmt, full_scale, bytes_per_sample, max_tu,
            si_sdr, si_stream >>

\* state of soapysdr_input_thread and of the process around it
VARIABLES
    tpc,              \* position of soapysdr_input_thread
    do_exit,          \* the global cancellation flag
    inbuf,            \* raw samples read, max_tu long once allocated
    outbuf,           \* converted samples, max_tu long once allocated
    bufState,         \* [in, out] : "none", "allocated" or "freed"
    samples_read,     \* local samples_read of the loop body
    devPos,           \* samples the device has delivered so far
    tlog,             \* calls made by the worker, in order
    pushed,           \* batches handed to complex_samples_produce, in order
    running,          \* block->running
    atExit            \* history: reads and pushes made when do_exit was set

tvars == << tpc, do_exit, inbuf, outbuf, bufState, samples_read, devPos,
            tlog, pushed, running, atExit >>

vars == << ivars, tvars >>

Call(op, arg, val, r) == [op |-> op, arg |-> arg, val |-> val, ret |-> r]

EmptyResult ==
    [sfmt |-> SFMT_UNDEF, soapy_sfmt |-> "NULL", full_scale |-> 0,
     sample_size |-> 0]

\* -------------------------------------------- soapysdr_choose_sample_format
\* NativeStep taking the kind's constant scale instead of the reported one
NativeStepConstScale(fmt, fullscale, size) ==
    LET k      == sample_format_from_string(fmt)
        r1     == [EmptyResult EXCEPT !.sfmt = k]
        r2     == IF k # SFMT_UNDEF
                  THEN [r1 EXCEPT !.sample_size = size[fmt]] ELSE r1
        sizeok == k # SFMT_UNDEF /\ size[fmt] = get_sample_size(k)
        r3     == IF sizeok
                  THEN [r2 EXCEPT !.full_scale = get_sample_full_scale_value(k)]
                  ELSE r2
        ok     == sizeok /\ fullscale > 0
    IN  [res      |-> IF ok THEN [r3 EXCEPT !.soapy_sfmt = fmt] ELSE r3,
         accepted |-> ok]

\* lines 53-63: the native format; the three conjuncts assign as they test
NativeStep(fmt, fullscale, size) ==
    LET k      == sample_format_from_string(fmt)
        r1     == [EmptyResult EXCEPT !.sfmt = k]
        r2     == IF k # SFMT_UNDEF
                  THEN [r1 EXCEPT !.sample_size = size[fmt]] ELSE r1
        sizeok == k # SFMT_UNDEF /\ size[fmt] = get_sample_size(k)
        r3     == IF sizeok THEN [r2 EXCEPT !.full_scale = fullscale] ELSE r2
        ok     == sizeok /\ fullscale > 0
    IN  [res      |-> IF ok THEN [r3 EXCEPT !.soapy_sfmt = fmt] ELSE r3,
         accepted |-> ok]

\* ScanFormats without the break of line 79: the last match wins
RECURSIVE ScanFormatsNoBreak(_, _, _, _)
ScanFormatsNoBreak(r, formats, i, size) ==
    IF i > Len(formats) THEN r
    ELSE LET f  == formats[i]
             k  == sample_format_from_string(f)
             r1 == [r EXCEPT !.sfmt = k]
             r2 == IF k # SFMT_UNDEF
                   THEN [r1 EXCEPT !.sample_size = size[f]] ELSE r1
             r3 == IF k # SFMT_UNDEF /\ size[f] = get_sample_size(k)
                   THEN [r2 EXCEPT
                           !.full_scale = get_sample_full_scale_value(k),
                           !.soapy_sfmt = f]
                   ELSE r2
         IN  ScanFormatsNoBreak(r3, formats, i + 1, size)

\* lines 72-81: the loop over the fallback list, from index i
RECURSIVE ScanFormats(_, _, _, _)
ScanFormats(r, formats, i, size) ==
    IF i > Len(formats) THEN r
    ELSE LET f  == formats[i]
             k  == sample_format_from_string(f)
             r1 == [r EXCEPT !.sfmt = k]
             r2 == IF k # SFMT_UNDEF
                   THEN [r1 EXCEPT !.sample_size = size[f]] ELSE r1
         IN  IF k # SFMT_UNDEF /\ size[f] = get_sample_size(k)
             THEN [r2 EXCEPT !.full_scale = get_sample_full_scale_value(k),
                             !.soapy_sfmt = f]
             ELSE ScanFormats(r2, formats, i + 1, size)

\* lines 49-83
soapysdr_choose_sample_format(d) ==
    LET n == NativeStep(d.native, d.fullscale, d.size)
    IN  IF n.accepted
        THEN [result |-> n.res, queried |-> FALSE]
        ELSE IF d.formats.null \/ Len(d.formats.list) = 0
        THEN [result |-> [n.res EXCEPT !.sfmt = SFMT_UNDEF], queried |-> TRUE]
        ELSE [result  |-> ScanFormats(n.res, d.formats.list, 1, d.size),
              queried |-> TRUE]

\* the worker before it is started
ThreadIdle ==
    /\ tpc = "idle"
    /\ do_exit = 0
    /\ inbuf = << >>
    /\ outbuf = << >>
    /\ bufState = [in |-> "none", out |-> "none"]
    /\ samples_read = 0
    /\ devPos = 0
    /\ tlog = << >>
    /\ pushed = << >>
    /\ running = TRUE
    /\ atExit = [set |-> do_exit # 0, reads |-> 0, pushes |-> 0]

\* ------------------------------------------------------ soapysdr_input_init
InitInit ==
    /\ \/ cfg \in AllConfigs /\ dev \in FewDevices
       \/ cfg \in FewConfigs /\ dev \in AllDevices
    /\ ipc = "makeStrArgs"
    /\ ret = "none"
    /\ sdr = "NULL"
    /\ devOpen = FALSE
    /\ streamOpen = FALSE
    /\ calls = << >>
    /\ chosen = EmptyResult
    /\ queriedList = FALSE
    /\ cfg_sfmt = SFMT_UNDEF
    /\ full_scale = 0
    /\ bytes_per_sample = 0
    /\ max_tu = 0
    /\ si_sdr = "NULL"
    /\ si_stream = "NULL"
    /\ ThreadIdle

\* return -1 / return 0
Return(v) == ipc' = "returned" /\ ret' = v

\* a setter whose result the code tests: step to next on 0, return -1 otherwise
CheckedSetter(at, op, arg, val, next) ==
    /\ ipc = at
    /\ \E r \in {0, -1} :
        /\ calls' = Append(calls, Call(op, arg, val, r))
        /\ IF r # 0 THEN Return(-1) ELSE ipc' = next /\ ret' = ret

\* lines 91-95
MakeStrArgs ==
    /\ ipc = "makeStrArgs"
    /\ \E ok \in BOOLEAN :
        /\ calls' = Append(calls, Call("makeStrArgs", cfg.source, 0,
                                       IF ok THEN 0 ELSE -1))
        /\ IF ok
           THEN sdr' = "dev" /\ devOpen' = TRUE
                /\ ipc' = "setSampleRate" /\ ret' = ret
           ELSE sdr' = sdr /\ devOpen' = devOpen /\ Return(-1)
    /\ UNCHANGED << cfg, dev, streamOpen, chosen, queriedList, cfg_sfmt,
                    full_scale, bytes_per_sample, max_tu, si_sdr, si_stream,
                    tvars >>

initFrame == << cfg, dev, sdr, devOpen, streamOpen, chosen, queriedList,
                cfg_sfmt, full_scale, bytes_per_sample, max_tu, si_sdr,
                si_stream, tvars >>

\* lines 96-99
SetSampleRate ==
    /\ CheckedSetter("setSampleRate", "setSampleRate", "", cfg.sample_rate,
                     "setFrequency")
    /\ UNCHANGED initFrame

\* lines 100-105
SetFrequency ==
    /\ CheckedSetter("setFrequency", "setFrequency", "",
                     cfg.centerfreq + cfg.freq_offset, "setFrequencyCorrection")
    /\ UNCHANGED initFrame

\* lines 106-110
SetFrequencyCorrection ==
    /\ CheckedSetter("setFrequencyCorrection", "setFrequencyCorrection", "",
                     cfg.correction, "dcOffset")
    /\ UNCHANGED initFrame

\* lines 111-116
DCOffset ==
    /\ ipc = "dcOffset"
    /\ \E has \in BOOLEAN, r \in {0, -1} :
        LET q == Append(calls, Call("hasDCOffsetMode", "", 0,
                                    IF has THEN 1 ELSE 0))
        IN  IF has
            THEN /\ calls' = Append(q, Call("setDCOffsetMode", "", 1, r))
                 /\ IF r # 0 THEN Return(-1) ELSE ipc' = "gain" /\ ret' = ret
            ELSE /\ r = 0
                 /\ calls' = q
                 /\ ipc' = "gain" /\ ret' = ret
    /\ UNCHANGED initFrame

\* GainBranch with the scalar gain tested before the per-element map
GainBranchScalarFirst(c) ==
    IF c.gain # AUTO_GAIN THEN "scalar"
    ELSE IF ~c.gain_elements.null THEN "elements"
    ELSE "auto"

\* lines 120, 134: which of the three gain branches is taken
GainBranch(c) ==
    IF ~c.gain_elements.null THEN "elements"
    ELSE IF c.gain # AUTO_GAIN THEN "scalar"
    ELSE "auto"

\* GainElementCalls setting every element first and reading back afterwards
GainElementCallsBatch(gains, rets, i) ==
    [j \in 1..Len(gains) |->
        Call("setGainElement", gains[j].key, gains[j].val, rets[j])]
    \o [j \in 1..Len(gains) |-> Call("getGainElement", gains[j].key, 0, 0)]

\* lines 127-132: set, then read back, each pair; rets[i] is what
\* setGainElement returned for pair i (the code does not look at it)
RECURSIVE GainElementCalls(_, _, _)
GainElementCalls(gains, rets, i) ==
    IF i > Len(gains) THEN << >>
    ELSE << Call("setGainElement", gains[i].key, gains[i].val, rets[i]),
            Call("getGainElement", gains[i].key, 0, 0) >>
         \o GainElementCalls(gains, rets, i + 1)

\* lines 118-151
Gain ==
    /\ ipc = "gain"
    /\ \/ /\ GainBranch(cfg) = "elements"
          /\ LET gains == SoapySDRKwargs_fromString(cfg.gain_elements.segs)
             IN  IF Len(gains) < 1
                 THEN calls' = calls /\ Return(-1)
                 ELSE \E rets \in [1..Len(gains) -> {0, -1}] :
                        /\ calls' = calls \o GainElementCalls(gains, rets, 1)
                        /\ ipc' = "antenna" /\ ret' = ret
       \/ /\ GainBranch(cfg) = "scalar"
          /\ \E r \in {0, -1} :
                /\ calls' = Append(calls, Call("setGain", "", cfg.gain, r))
                /\ IF r # 0 THEN Return(-1)
                   ELSE ipc' = "antenna" /\ ret' = ret
       \/ /\ GainBranch(cfg) = "auto"
          /\ \E has \in BOOLEAN, r \in {0, -1} :
                LET q == Append(calls, Call("hasGainMode", "", 0,
                                            IF has THEN 1 ELSE 0))
                IN  IF ~has
                    THEN r = 0 /\ calls' = q /\ Return(-1)
                    ELSE /\ calls' = Append(q, Call("setGainMode", "", 1, r))
                         /\ IF r # 0 THEN Return(-1)
                            ELSE ipc' = "antenna" /\ ret' = ret
    /\ UNCHANGED initFrame

\* lines 152-158
Antenna ==
    /\ ipc = "antenna"
    /\ \E r \in {0, -1} :
        IF cfg.antenna # "NULL"
        THEN IF r # 0
             THEN /\ calls' = Append(calls, Call("setAntenna", cfg.antenna, 0, r))
                  /\ Return(-1)
             ELSE /\ calls' = calls \o
                        << Call("setAntenna", cfg.antenna, 0, r),
                           Call("getAntenna", "", 0, 0) >>
                  /\ ipc' = "settings" /\ ret' = ret
        ELSE /\ r = 0
             /\ calls' = Append(calls, Call("getAntenna", "", 0, 0))
             /\ ipc' = "settings" /\ ret' = ret
    /\ UNCHANGED initFrame

\* lines 168-174: write, then read back, each pair; same[i] tells whether
\* the value read back equals the value written
RECURSIVE SettingCalls(_, _, _)
SettingCalls(settings, same, i) ==
    IF i > Len(settings) THEN << >>
    ELSE << Call("writeSetting", settings[i].key, 0, 0),
            Call("readSetting", settings[i].key, 0,
                 IF same[i] THEN 0 ELSE 1) >>
         \o SettingCalls(settings, same, i + 1)

\* Settings without the test of settings_param.size (lines 162-167)
SettingsNoSizeCheck ==
    /\ ipc = "settings"
    /\ IF cfg.device_settings.null
       THEN calls' = calls /\ ipc' = "negotiate" /\ ret' = ret
       ELSE LET sp == SoapySDRKwargs_fromString(cfg.device_settings.segs)
            IN  \E same \in [1..Len(sp) -> BOOLEAN] :
                    /\ calls' = calls \o SettingCalls(sp, same, 1)
                    /\ ipc' = "negotiate" /\ ret' = ret
    /\ UNCHANGED initFrame

\* Settings returning -1 when a value read back differs from the one written
SettingsMismatchFatal ==
    /\ ipc = "settings"
    /\ IF cfg.device_settings.null
       THEN calls' = calls /\ ipc' = "negotiate" /\ ret' = ret
       ELSE LET sp == SoapySDRKwargs_fromString(cfg.device_settings.segs)
            IN  IF Len(sp) < 1
                THEN calls' = calls /\ Return(-1)
                ELSE \E same \in [1..Len(sp) -> BOOLEAN] :
                        /\ calls' = calls \o SettingCalls(sp, same, 1)
                        /\ IF \E i \in 1..Len(sp) : ~same[i]
                           THEN Return(-1)
                           ELSE ipc' = "negotiate" /\ ret' = ret
    /\ UNCHANGED initFrame

\* lines 160-176
Settings ==
    /\ ipc = "settings"
    /\ IF cfg.device_settings.null
       THEN calls' = calls /\ ipc' = "negotiate" /\ ret' = ret
       ELSE LET sp == SoapySDRKwargs_fromString(cfg.device_settings.segs)
            IN  IF Len(sp) < 1
                THEN calls' = calls /\ Return(-1)
                ELSE \E same \in [1..Len(sp) -> BOOLEAN] :
                        /\ calls' = calls \o SettingCalls(sp, same, 1)
                        /\ ipc' = "negotiate" /\ ret' = ret
    /\ UNCHANGED initFrame

\* Negotiate without the test of chosen.sfmt (lines 178-182)
NegotiateIgnoresFailure ==
    /\ ipc = "negotiate"
    /\ LET c == soapysdr_choose_sample_format(dev)
       IN  /\ chosen' = c.result
           /\ queriedList' = c.queried
           /\ calls' = calls \o
                 << Call("getNativeStreamFormat", dev.native, dev.fullscale, 0) >>
                 \o (IF c.queried
                     THEN << Call("getStreamFormats", "", 0, 0) >> ELSE << >>)
           /\ cfg_sfmt' = c.result.sfmt
           /\ full_scale' = c.result.full_scale
           /\ bytes_per_sample' = c.result.sample_size
           /\ ipc' = "setupStream" /\ ret' = ret
    /\ UNCHANGED << cfg, dev, sdr, devOpen, streamOpen, max_tu, si_sdr,
                    si_stream, tvars >>

\* lines 177-187
Negotiate ==
    /\ ipc = "negotiate"
    /\ LET c == soapysdr_choose_sample_format(dev)
       IN  /\ chosen' = c.result
           /\ queriedList' = c.queried
           /\ calls' = calls \o
                 << Call("getNativeStreamFormat", dev.native, dev.fullscale, 0) >>
                 \o (IF c.queried
                     THEN << Call("getStreamFormats", "", 0, 0) >> ELSE << >>)
           /\ IF c.result.sfmt = SFMT_UNDEF
              THEN /\ Return(-1)
                   /\ UNCHANGED << cfg_sfmt, full_scale, bytes_per_sample >>
              ELSE /\ cfg_sfmt' = c.result.sfmt
                   /\ full_scale' = c.result.full_scale
                   /\ bytes_per_sample' = c.result.sample_size
                   /\ ipc' = "setupStream" /\ ret' = ret
    /\ UNCHANGED << cfg, dev, sdr, devOpen, streamOpen, max_tu, si_sdr,
                    si_stream, tvars >>

\* SetupStream recording the device handle before the stream is set up
SetupStreamRecordsEarly ==
    /\ ipc = "setupStream"
    /\ si_sdr' = sdr
    /\ \E ok \in BOOLEAN, mtu \in 1..MaxMTU :
        IF ok
        THEN /\ calls' = calls \o
                   << Call("setupStream", chosen.soapy_sfmt, 0, 0),
                      Call("getStreamMTU", "", 0, mtu) >>
             /\ streamOpen' = TRUE
             /\ max_tu' = mtu
             /\ si_stream' = "stream"
             /\ Return(0)
        ELSE /\ mtu = 1
             /\ calls' = Append(calls,
                                Call("setupStream", chosen.soapy_sfmt, 0, -1))
             /\ Return(-1)
             /\ UNCHANGED << streamOpen, max_tu, si_stream >>
    /\ UNCHANGED << cfg, dev, sdr, devOpen, chosen, queriedList, cfg_sfmt,
                    full_scale, bytes_per_sample, tvars >>

\* lines 189-203
SetupStream ==
    /\ ipc = "setupStream"
    /\ \E ok \in BOOLEAN, mtu \in 1..MaxMTU :
        IF ok
        THEN /\ calls' = calls \o
                   << Call("setupStream", chosen.soapy_sfmt, 0, 0),
                      Call("getStreamMTU", "", 0, mtu) >>
             /\ streamOpen' = TRUE
             /\ max_tu' = mtu
             /\ si_sdr' = sdr
             /\ si_stream' = "stream"
             /\ Return(0)
        ELSE /\ mtu = 1
             /\ calls' = Append(calls,
                                Call("setupStream", chosen.soapy_sfmt, 0, -1))
             /\ Return(-1)
             /\ UNCHANGED << streamOpen, max_tu, si_sdr, si_stream >>
    /\ UNCHANGED << cfg, dev, sdr, devOpen, chosen, queriedList, cfg_sfmt,
                    full_scale, bytes_per_sample, tvars >>

Init == InitInit

Next ==
    \/ MakeStrArgs
    \/ SetSampleRate
    \/ SetFrequency
    \/ SetFrequencyCorrection
    \/ DCOffset
    \/ Gain
    \/ Antenna
    \/ Settings
    \/ Negotiate
    \/ SetupStream

Spec == Init /\ [][Next]_vars

\* ---------------------------------------------------- soapysdr_input_thread
\* SoapySDR error codes readStream may return (SOAPY_SDR_TIMEOUT,
\* SOAPY_SDR_OVERFLOW)
ReadErrors == {-1, -4}

TCall(op, n) == [op |-> op, n |-> n]

ZeroRaw == 0
ConvertSample(x) == [cf |-> x]

\* input->convert_sample_buffer(input, inbuf, len, outbuf): len bytes of
\* raw samples become len / bytes_per_sample complex samples
convert_sample_buffer(buf, len, out) ==
    [i \in 1..Len(out) |->
        IF i <= len \div bytes_per_sample THEN ConvertSample(buf[i])
        ELSE out[i]]

\* the worker is started on an input that init has set up (init returned 0,
\* lines 183-203); the call log starts again with the worker
ThreadInit ==
    /\ cfg \in { c \in FewConfigs : c.gain = AUTO_GAIN }
    /\ dev \in { d \in FewDevices : d.native = "CS16" }
    /\ ipc = "returned"
    /\ ret = 0
    /\ sdr = "dev"
    /\ devOpen = TRUE
    /\ streamOpen = TRUE
    /\ calls = << >>
    /\ chosen = soapysdr_choose_sample_format(dev).result
    /\ queriedList = FALSE
    /\ cfg_sfmt = chosen.sfmt
    /\ full_scale = chosen.full_scale
    /\ bytes_per_sample = chosen.sample_size
    /\ max_tu \in 1..MaxMTU
    /\ si_sdr = "dev"
    /\ si_stream = "stream"
    /\ tpc = "alloc"
    /\ do_exit \in {0, 1}
    /\ inbuf = << >>
    /\ outbuf = << >>
    /\ bufState = [in |-> "none", out |-> "none"]
    /\ samples_read = 0
    /\ devPos = 0
    /\ tlog = << >>
    /\ pushed = << >>
    /\ running = TRUE
    /\ atExit = [set |-> do_exit # 0, reads |-> 0, pushes |-> 0]

threadFrame == << cfg, dev, ipc, ret, sdr, calls, chosen, queriedList,
                  cfg_sfmt, full_scale, bytes_per_sample, max_tu, si_sdr,
                  si_stream >>

NumReads == Cardinality({ i \in 1..Len(tlog) : tlog[i].op = "readStream" })

\* history: the reads and pushes made so far, noted by the step that sets
\* do_exit
NoteExit ==
    atExit' = IF ~atExit.set /\ do_exit' # 0
              THEN [set |-> TRUE, reads |-> NumReads, pushes |-> Len(pushed)]
              ELSE atExit

\* lines 220-221
AllocBuffers ==
    /\ tpc = "alloc"
    /\ inbuf' = [i \in 1..max_tu |-> ZeroRaw]
    /\ outbuf' = [i \in 1..max_tu |-> ConvertSample(ZeroRaw)]
    /\ bufState' = [in |-> "allocated", out |-> "allocated"]
    /\ tpc' = "activate"
    /\ UNCHANGED << do_exit, samples_read, devPos, tlog, pushed, running,
                    devOpen, streamOpen, threadFrame >>
    /\ NoteExit

\* ActivateStream returning on failure instead of going to shutdown
ActivateStreamEarlyReturn ==
    /\ tpc = "activate"
    /\ \E r \in {0, -1} :
        /\ tlog' = Append(tlog, TCall("activateStream", r))
        /\ IF r # 0
           THEN do_exit' = 1 /\ tpc' = "return"
           ELSE do_exit' = do_exit /\ tpc' = "loop"
    /\ UNCHANGED << inbuf, outbuf, bufState, samples_read, devPos, pushed,
                    running, devOpen, streamOpen, threadFrame >>
    /\ NoteExit

\* ActivateStream going to shutdown on failure without setting do_exit
ActivateStreamNoCancel ==
    /\ tpc = "activate"
    /\ \E r \in {0, -1} :
        /\ tlog' = Append(tlog, TCall("activateStream", r))
        /\ IF r # 0 THEN tpc' = "deactivate" ELSE tpc' = "loop"
    /\ UNCHANGED << do_exit, inbuf, outbuf, bufState, samples_read, devPos,
                    pushed, running, devOpen, streamOpen, threadFrame >>
    /\ NoteExit

\* lines 223-229
ActivateStream ==
    /\ tpc = "activate"
    /\ \E r \in {0, -1} :
        /\ tlog' = Append(tlog, TCall("activateStream", r))
        /\ IF r # 0
           THEN do_exit' = 1 /\ tpc' = "deactivate"
           ELSE do_exit' = do_exit /\ tpc' = "loop"
    /\ UNCHANGED << inbuf, outbuf, bufState, samples_read, devPos, pushed,
                    running, devOpen, streamOpen, threadFrame >>
    /\ NoteExit

\* LoopTest that never leaves the loop
LoopTestNoExit ==
    /\ tpc = "loop"
    /\ NumReads < MaxReads
    /\ tpc' = "read"
    /\ UNCHANGED << do_exit, inbuf, outbuf, bufState, samples_read, devPos,
                    tlog, pushed, running, devOpen, streamOpen, threadFrame >>
    /\ NoteExit

\* line 231: while(do_exit == 0); the worker is not scheduled for another
\* iteration once MaxReads reads were made, until the flag is set
LoopTest ==
    /\ tpc = "loop"
    /\ IF do_exit = 0
       THEN /\ Cardinality({ i \in 1..Len(tlog) : tlog[i].op = "readStream" })
                 < MaxReads
            /\ tpc' = "read"
       ELSE tpc' = "deactivate"
    /\ UNCHANGED << do_exit, inbuf, outbuf, bufState, samples_read, devPos,
                    tlog, pushed, running, devOpen, streamOpen, threadFrame >>
    /\ NoteExit

\* lines 234-235: a read of up to max_tu samples; r < 0 is an error code
ReadStream ==
    /\ tpc = "read"
    /\ \E r \in ReadErrors \cup 0..max_tu :
        /\ samples_read' = r
        /\ tlog' = Append(tlog, TCall("readStream", r))
        /\ inbuf' = [i \in 1..Len(inbuf) |->
                        IF i <= r THEN devPos + i ELSE inbuf[i]]
        /\ devPos' = IF r > 0 THEN devPos + r ELSE devPos
    /\ tpc' = "test"
    /\ UNCHANGED << do_exit, outbuf, bufState, pushed, running, devOpen,
                    streamOpen, threadFrame >>
    /\ NoteExit

\* ReadFailed treating a read error as fatal
ReadFailedFatal ==
    /\ tpc = "test"
    /\ samples_read < 0
    /\ do_exit' = 1
    /\ tpc' = "deactivate"
    /\ UNCHANGED << inbuf, outbuf, bufState, samples_read, devPos,
                    tlog, pushed, running, devOpen, streamOpen, threadFrame >>
    /\ NoteExit

\* lines 236-240
ReadFailed ==
    /\ tpc = "test"
    /\ samples_read < 0
    /\ tpc' = "loop"
    /\ UNCHANGED << do_exit, inbuf, outbuf, bufState, samples_read, devPos,
                    tlog, pushed, running, devOpen, streamOpen, threadFrame >>
    /\ NoteExit

\* ConvertBuffer taking an empty read for the end of the stream
ConvertBufferExitOnEmpty ==
    /\ tpc = "test"
    /\ ~(samples_read < 0)
    /\ outbuf' = convert_sample_buffer(inbuf, samples_read * bytes_per_sample,
                                       outbuf)
    /\ tlog' = Append(tlog, TCall("convert_sample_buffer",
                                  samples_read * bytes_per_sample))
    /\ do_exit' = IF samples_read = 0 THEN 1 ELSE do_exit
    /\ tpc' = "produce"
    /\ UNCHANGED << inbuf, bufState, samples_read, devPos, pushed,
                    running, devOpen, streamOpen, threadFrame >>
    /\ NoteExit

\* line 241
ConvertBuffer ==
    /\ tpc = "test"
    /\ ~(samples_read < 0)
    /\ outbuf' = convert_sample_buffer(inbuf, samples_read * bytes_per_sample,
                                       outbuf)
    /\ tlog' = Append(tlog, TCall("convert_sample_buffer",
                                  samples_read * bytes_per_sample))
    /\ tpc' = "produce"
    /\ UNCHANGED << do_exit, inbuf, bufState, samples_read, devPos, pushed,
                    running, devOpen, streamOpen, threadFrame >>
    /\ NoteExit

\* Produce handing over the whole buffer instead of samples_read samples
ProduceWholeBuffer ==
    /\ tpc = "produce"
    /\ pushed' = Append(pushed, outbuf)
    /\ tlog' = Append(tlog, TCall("complex_samples_produce", Len(outbuf)))
    /\ tpc' = "loop"
    /\ UNCHANGED << do_exit, inbuf, outbuf, bufState, samples_read, devPos,
                    running, devOpen, streamOpen, threadFrame >>
    /\ NoteExit

\* Produce going straight to the next read, past the loop test
ProduceSkipsTest ==
    /\ tpc = "produce"
    /\ pushed' = Append(pushed, SubSeq(outbuf, 1, samples_read))
    /\ tlog' = Append(tlog, TCall("complex_samples_produce", samples_read))
    /\ tpc' = IF NumReads < MaxReads THEN "read" ELSE "loop"
    /\ UNCHANGED << do_exit, inbuf, outbuf, bufState, samples_read, devPos,
                    running, devOpen, streamOpen, threadFrame >>
    /\ NoteExit

\* line 242
Produce ==
    /\ tpc = "produce"
    /\ pushed' = Append(pushed, SubSeq(outbuf, 1, samples_read))
    /\ tlog' = Append(tlog, TCall("complex_samples_produce", samples_read))
    /\ tpc' = "loop"
    /\ UNCHANGED << do_exit, inbuf, outbuf, bufState, samples_read, devPos,
                    running, devOpen, streamOpen, threadFrame >>
    /\ NoteExit

\* one statement of the shutdown sequence: a library call, logged
ShutdownCall(at, op, next) ==
    /\ tpc = at
    /\ tlog' = Append(tlog, TCall(op, 0))
    /\ tpc' = next

\* line 246
DeactivateStream ==
    /\ ShutdownCall("deactivate", "deactivateStream", "close")
    /\ UNCHANGED << do_exit, inbuf, outbuf, bufState, samples_read, devPos,
                    pushed, running, devOpen, streamOpen, threadFrame >>
    /\ NoteExit

\* line 247
CloseStream ==
    /\ ShutdownCall("close", "closeStream", "unmake")
    /\ streamOpen' = FALSE
    /\ UNCHANGED << do_exit, inbuf, outbuf, bufState, samples_read, devPos,
                    pushed, running, devOpen, threadFrame >>
    /\ NoteExit

\* line 248
Unmake ==
    /\ ShutdownCall("unmake", "unmake", "signal")
    /\ devOpen' = FALSE
    /\ UNCHANGED << do_exit, inbuf, outbuf, bufState, samples_read, devPos,
                    pushed, running, streamOpen, threadFrame >>
    /\ NoteExit

\* line 249
ConnectionShutdown ==
    /\ ShutdownCall("signal", "block_connection_one2one_shutdown", "mark")
    /\ UNCHANGED << do_exit, inbuf, outbuf, bufState, samples_read, devPos,
                    pushed, running, devOpen, streamOpen, threadFrame >>
    /\ NoteExit

\* line 250
MarkStopped ==
    /\ ShutdownCall("mark", "running=false", "free_in")
    /\ running' = FALSE
    /\ UNCHANGED << do_exit, inbuf, outbuf, bufState, samples_read, devPos,
                    pushed, devOpen, streamOpen, threadFrame >>
    /\ NoteExit

\* line 251
FreeInbuf ==
    /\ ShutdownCall("free_in", "free_inbuf", "free_out")
    /\ bufState' = [bufState EXCEPT !.in = "freed"]
    /\ UNCHANGED << do_exit, inbuf, outbuf, samples_read, devPos, pushed,
                    running, devOpen, streamOpen, threadFrame >>
    /\ NoteExit

\* lines 252-253
FreeOutbuf ==
    /\ ShutdownCall("free_out", "free_outbuf", "return")
    /\ bufState' = [bufState EXCEPT !.out = "freed"]
    /\ UNCHANGED << do_exit, inbuf, outbuf, samples_read, devPos, pushed,
                    running, devOpen, streamOpen, threadFrame >>
    /\ NoteExit

\* the external controller (signal handler) sets the flag while the worker
\* lives
SetExit ==
    /\ tpc # "return"
    /\ do_exit = 0
    /\ do_exit' = 1
    /\ UNCHANGED << tpc, inbuf, outbuf, bufState, samples_read, devPos, tlog,
                    pushed, running, devOpen, streamOpen, threadFrame >>
    /\ NoteExit

NextThread ==
    \/ AllocBuffers
    \/ ActivateStream
    \/ LoopTest
    \/ ReadStream
    \/ ReadFailed
    \/ ConvertBuffer
    \/ Produce
    \/ DeactivateStream
    \/ CloseStream
    \/ Unmake
    \/ ConnectionShutdown
    \/ MarkStopped
    \/ FreeInbuf
    \/ FreeOutbuf
    \/ SetExit

\* the steps of the worker, without the controller
WorkerStep ==
    \/ AllocBuffers \/ ActivateStream \/ LoopTest \/ ReadStream \/ ReadFailed
    \/ ConvertBuffer \/ Produce \/ DeactivateStream \/ CloseStream \/ Unmake
    \/ ConnectionShutdown \/ MarkStopped \/ FreeInbuf \/ FreeOutbuf

SpecThread == ThreadInit /\ [][NextThread]_vars

\* the worker thread is scheduled, and every readStream and every
\* complex_samples_produce returns: a worker step that stays possible is
\* taken
SpecThreadFair == SpecThread /\ WF_vars(WorkerStep)

\* ================================================================= claims
HasCall(op) == \E i \in 1..Len(calls) : calls[i].op = op

CallsOf(op) == SelectSeq(calls, LAMBDA c : c.op = op)

\* the negotiator has run
Negotiated == HasCall("getNativeStreamFormat")

\* the predicate of the spec on a wire-format identifier: it maps to a known
\* kind and the device reports the size expected for that kind
EntryUsable(f) ==
    /\ sample_format_from_string(f) \in KnownKinds
    /\ dev.size[f] = get_sample_size(sample_format_from_string(f))

NativeUsable == EntryUsable(dev.native) /\ dev.fullscale > 0

UsableIndexes ==
    IF dev.formats.null THEN {}
    ELSE { i \in 1..Len(dev.formats.list) : EntryUsable(dev.formats.list[i]) }

FirstUsable == CHOOSE i \in UsableIndexes : \A j \in UsableIndexes : i <= j

\* C1: when the native format is unusable and no entry of the fallback list
\* is usable (the list may be empty or unreadable), negotiation yields the
\* undefined kind, init returns -1 and setupStream is never called.
C1_NoUsableFormatFails ==
    (Negotiated /\ ~NativeUsable /\ UsableIndexes = {})
        => /\ chosen.sfmt = SFMT_UNDEF
           /\ ipc = "returned" /\ ret = -1
           /\ ~HasCall("setupStream")

\* C2: when the native format is unusable and the fallback list has a usable
\* entry, negotiation selects the first usable entry in list order, with the
\* fixed full-scale constant of its kind.
C2_FirstFallbackSelected ==
    (Negotiated /\ ~NativeUsable /\ UsableIndexes # {})
        => LET f == dev.formats.list[FirstUsable]
               k == sample_format_from_string(f)
           IN  /\ queriedList
               /\ chosen.soapy_sfmt = f
               /\ chosen.sfmt = k
               /\ chosen.sample_size = get_sample_size(k)
               /\ chosen.full_scale = get_sample_full_scale_value(k)

\* the fallback list holds two usable entries and the first one was chosen,
\* while the device reported a positive scale for its unusable native format
C2_Witness ==
    /\ Negotiated /\ ~NativeUsable
    /\ Cardinality(UsableIndexes) >= 2
    /\ dev.fullscale > 0
    /\ chosen.soapy_sfmt = dev.formats.list[1]
    /\ chosen.full_scale # dev.fullscale

\* C3: when the native format is usable (known kind, matching size, positive
\* full scale), negotiation returns it with the device-reported full scale
\* and does not call getStreamFormats.
C3_NativeSelected ==
    (Negotiated /\ NativeUsable)
        => /\ chosen.soapy_sfmt = dev.native
           /\ chosen.sfmt = sample_format_from_string(dev.native)
           /\ chosen.sample_size = get_sample_size(chosen.sfmt)
           /\ chosen.full_scale = dev.fullscale
           /\ ~queriedList
           /\ ~HasCall("getStreamFormats")

\* a usable native format was chosen although the list has usable entries
C3_Witness ==
    /\ Negotiated /\ NativeUsable
    /\ UsableIndexes # {}
    /\ chosen.soapy_sfmt = dev.native
    /\ ipc = "setupStream"

\* C4: when init returns 0, cfg->sfmt is a known kind, bytes_per_sample is
\* the size expected for it, full_scale is positive, the MTU is recorded and
\* setupStream was called with the identifier of the selected candidate.
C4_SuccessPostcondition ==
    (ipc = "returned" /\ ret = 0)
        => /\ cfg_sfmt \in KnownKinds
           /\ bytes_per_sample = get_sample_size(cfg_sfmt)
           /\ full_scale > 0
           /\ max_tu >= 1
           /\ Len(CallsOf("setupStream")) = 1
           /\ CallsOf("setupStream")[1].arg = chosen.soapy_sfmt
           /\ EntryUsable(chosen.soapy_sfmt)

CheckedSetters ==
    {"setSampleRate", "setFrequency", "setFrequencyCorrection",
     "setDCOffsetMode", "setGainElement", "setGain", "setGainMode",
     "setAntenna"}

\* C5: a setter call that fails is the last call init makes, and init
\* returns -1.
C5_SetterFailureAborts ==
    \A i \in 1..Len(calls) :
        (calls[i].op \in CheckedSetters /\ calls[i].ret # 0)
            => /\ i = Len(calls)
               /\ ipc = "returned" /\ ret = -1

\* C6: when init returns -1 after the device was opened, no device handle
\* and no stream handle is left open.
C6_NothingLeftOpenOnFailure ==
    (ipc = "returned" /\ ret = -1) => (~devOpen /\ ~streamOpen)

GainDone == ipc = "antenna" \/ HasCall("setAntenna") \/ HasCall("getAntenna")

\* C10: with a per-element gain map only setGainElement/getGainElement are
\* called, whatever cfg->gain is; else with a scalar gain only setGain is
\* called; else auto gain is requested, and init fails without calling
\* setGainMode when hasGainMode says no.
C10_GainPrecedence ==
    /\ ~cfg.gain_elements.null =>
          /\ ~HasCall("setGain") /\ ~HasCall("hasGainMode")
          /\ ~HasCall("setGainMode")
          /\ GainDone => HasCall("setGainElement")
    /\ (cfg.gain_elements.null /\ cfg.gain # AUTO_GAIN) =>
          /\ ~HasCall("setGainElement") /\ ~HasCall("getGainElement")
          /\ ~HasCall("hasGainMode") /\ ~HasCall("setGainMode")
          /\ GainDone => /\ Len(CallsOf("setGain")) = 1
                         /\ CallsOf("setGain")[1].val = cfg.gain
    /\ (cfg.gain_elements.null /\ cfg.gain = AUTO_GAIN) =>
          /\ ~HasCall("setGainElement") /\ ~HasCall("getGainElement")
          /\ ~HasCall("setGain")
          /\ GainDone => /\ Len(CallsOf("setGainMode")) = 1
                         /\ CallsOf("setGainMode")[1].ret = 0
          /\ (HasCall("hasGainMode") /\ CallsOf("hasGainMode")[1].ret = 0) =>
                /\ ~HasCall("setGainMode")
                /\ ipc = "returned" /\ ret = -1

\* both a per-element map and a scalar gain are supplied, and the map was
\* applied
C10_Witness ==
    /\ ~cfg.gain_elements.null /\ cfg.gain # AUTO_GAIN
    /\ GainDone
    /\ Len(CallsOf("setGainElement")) = 2

\* --------------------------------------------------------- worker claims
TOps(op) == SelectSeq(tlog, LAMBDA c : c.op = op)

ShutdownOrder ==
    << "deactivateStream", "closeStream", "unmake",
       "block_connection_one2one_shutdown", "running=false", "free_inbuf",
       "free_outbuf" >>

IsShutdownOp(op) == \E i \in 1..Len(ShutdownOrder) : ShutdownOrder[i] = op

DeviceOps == {"activateStream", "readStream", "deactivateStream",
              "closeStream", "unmake"}

\* index of the first shutdown statement in the log, Len + 1 if none
ShutdownStart ==
    IF \E i \in 1..Len(tlog) : IsShutdownOp(tlog[i].op)
    THEN CHOOSE i \in 1..Len(tlog) :
            /\ IsShutdownOp(tlog[i].op)
            /\ \A j \in 1..(i - 1) : ~IsShutdownOp(tlog[j].op)
    ELSE Len(tlog) + 1

\* C7: the shutdown statements form the tail of the worker's log and are a
\* prefix of deactivate, close, unmake, signal, mark, free, free; when the
\* worker has returned all seven have run, each once; nothing touches the
\* device or the stream after unmake.
C7_ShutdownOnceInOrder ==
    LET tail == SubSeq(tlog, ShutdownStart, Len(tlog))
    IN  /\ Len(tail) <= Len(ShutdownOrder)
        /\ \A i \in 1..Len(tail) : tail[i].op = ShutdownOrder[i]
        /\ tpc = "return" => Len(tail) = Len(ShutdownOrder)
        /\ tpc = "return" =>
              /\ ~running /\ ~devOpen /\ ~streamOpen
              /\ bufState = [in |-> "freed", out |-> "freed"]
        /\ \A i, j \in 1..Len(tlog) :
              (tlog[i].op = "unmake" /\ i < j) => tlog[j].op \notin DeviceOps

\* the worker has returned after a cancelled run that read samples
C7_Witness ==
    /\ tpc = "return"
    /\ Len(TOps("activateStream")) = 1 /\ TOps("activateStream")[1].n = 0
    /\ Len(TOps("complex_samples_produce")) >= 1
    /\ Len(TOps("block_connection_one2one_shutdown")) = 1

\* C8: after a read that returned a negative count the worker's next step
\* goes back to the loop test, with nothing converted or pushed and the
\* flag untouched; and from the loop test with the flag unset the worker
\* goes on to another read.
C8_NegativeReadContinues ==
    [][ /\ (tpc = "test" /\ samples_read < 0 /\ tpc' # tpc) =>
              /\ tpc' = "loop"
              /\ do_exit' = do_exit
              /\ pushed' = pushed /\ outbuf' = outbuf /\ tlog' = tlog
        /\ (tpc = "loop" /\ do_exit = 0 /\ tpc' # tpc) => tpc' = "read"
      ]_vars

\* two reads in a row failed, the flag is unset and the worker is about to
\* read again
C8_Witness ==
    /\ tpc = "read" /\ do_exit = 0
    /\ Len(tlog) >= 3
    /\ tlog[Len(tlog)].op = "readStream" /\ tlog[Len(tlog)].n < 0
    /\ tlog[Len(tlog) - 1].op = "readStream" /\ tlog[Len(tlog) - 1].n < 0
    /\ pushed = << >>

RECURSIVE Flatten(_)
Flatten(ss) == IF ss = << >> THEN << >> ELSE Head(ss) \o Flatten(Tail(ss))

GoodReads == SelectSeq(tlog, LAMBDA c : c.op = "readStream" /\ c.n >= 0)

\* C9: every read of N >= 0 samples is followed by one conversion and one
\* push of N samples before the next read; the pushed batches are the
\* non-negative reads in order, and the samples pushed are the converted
\* device samples in device order.
C9_PushesMatchReads ==
    LET P == TOps("complex_samples_produce")
    IN  /\ Len(pushed) = Len(P)
        /\ Len(GoodReads) - Len(P) =
              (IF tpc \in {"test", "produce"} /\ samples_read >= 0
               THEN 1 ELSE 0)
        /\ \A j \in 1..Len(P) :
              P[j].n = GoodReads[j].n /\ Len(pushed[j]) = GoodReads[j].n
        /\ \A i \in 1..Len(tlog) :
              (tlog[i].op = "readStream" /\ tlog[i].n >= 0) =>
                 /\ i + 1 <= Len(tlog) =>
                        tlog[i + 1].op = "convert_sample_buffer"
                 /\ i + 2 <= Len(tlog) =>
                        /\ tlog[i + 2].op = "complex_samples_produce"
                        /\ tlog[i + 2].n = tlog[i].n
        /\ LET all == Flatten(pushed)
           IN  /\ \A i \in 1..Len(all) : all[i] = ConvertSample(i)
               /\ tpc \notin {"test", "produce"} => Len(all) = devPos

\* two batches were pushed, an empty and a full one, and a read failed
C9_Witness ==
    /\ tpc = "loop"
    /\ Len(pushed) = 2
    /\ \E j \in 1..2 : pushed[j] = << >>
    /\ \E j \in 1..2 : Len(pushed[j]) = 2
    /\ \E i \in 1..Len(tlog) : tlog[i].op = "readStream" /\ tlog[i].n < 0

\* ------------------------------------------------- claims on init, continued
ZeroPairs(str) == ~str.null /\ Len(SoapySDRKwargs_fromString(str.segs)) = 0

\* C11: when a supplied gain string or settings string parses to zero pairs,
\* init never returns 0, never reaches negotiation or stream setup, and
\* makes no setGainElement (gain string) or writeSetting (settings string)
\* call.
C11_ZeroPairsRejected ==
    (ZeroPairs(cfg.gain_elements) \/ ZeroPairs(cfg.device_settings))
        => /\ ipc = "returned" => ret = -1
           /\ ipc \notin {"negotiate", "setupStream"}
           /\ ~Negotiated
           /\ ~HasCall("setupStream")
           /\ ZeroPairs(cfg.gain_elements) =>
                 /\ ~HasCall("setGainElement")
                 /\ ipc \notin {"antenna", "settings"}
                 /\ ~HasCall("getAntenna")
           /\ ZeroPairs(cfg.device_settings) => ~HasCall("writeSetting")

\* a non-empty settings string without any pair was rejected at the settings
\* step, after two gain elements were applied
C11_Witness ==
    /\ ZeroPairs(cfg.device_settings) /\ cfg.device_settings.segs # << >>
    /\ Len(CallsOf("setGainElement")) = 2
    /\ HasCall("getAntenna")
    /\ ipc = "returned" /\ ret = -1

SettingOps == {"writeSetting", "readSetting"}

\* C13: the pairs of the settings string are written and read back one after
\* the other in the order of the string, and whatever the read-backs say init
\* goes on to negotiation: it fails afterwards only if negotiation or stream
\* setup fails.
C13_SettingMismatchNotFatal ==
    LET sp == SoapySDRKwargs_fromString(cfg.device_settings.segs)
        W  == SelectSeq(calls, LAMBDA c : c.op \in SettingOps)
    IN  /\ HasCall("writeSetting") =>
              /\ Len(W) = 2 * Len(sp)
              /\ \A i \in 1..Len(sp) :
                    /\ W[2 * i - 1].op = "writeSetting"
                    /\ W[2 * i - 1].arg = sp[i].key
                    /\ W[2 * i].op = "readSetting"
                    /\ W[2 * i].arg = sp[i].key
              /\ \E at \in 1..Len(calls) :
                    SubSeq(calls, at, at + Len(W) - 1) = W
              /\ ipc \in {"negotiate", "setupStream", "returned"}
              /\ ipc = "returned" => Negotiated
              /\ (ipc = "returned" /\ ret = -1) =>
                    \/ chosen.sfmt = SFMT_UNDEF
                    \/ /\ HasCall("setupStream")
                       /\ CallsOf("setupStream")[1].ret # 0
        /\ (Negotiated /\ ~cfg.device_settings.null) => HasCall("writeSetting")

\* two settings were written, both read back different, and init returned 0
C13_Witness ==
    /\ ipc = "returned" /\ ret = 0
    /\ Len(CallsOf("readSetting")) = 2
    /\ \A i \in 1..2 : CallsOf("readSetting")[i].ret = 1
    /\ HasCall("setupStream")

GainOps == {"setGainElement", "getGainElement", "setGain", "hasGainMode",
            "setGainMode"}

\* every call of A comes before every call of B
AllBefore(A, B) ==
    \A i, j \in 1..Len(calls) :
        (calls[i].op \in A /\ calls[j].op \in B) => i < j

\* op was called exactly once and returned r
OnceWith(op, r) ==
    Len(CallsOf(op)) = 1 /\ CallsOf(op)[1].ret = r

C17_GainElementsInOrder ==
    (~cfg.gain_elements.null /\ GainDone) =>
        LET g == SoapySDRKwargs_fromString(cfg.gain_elements.segs)
            S == CallsOf("setGainElement")
        IN  /\ Len(g) >= 1
            /\ Len(S) = Len(g)
            /\ Len(CallsOf("getGainElement")) = Len(g)
            /\ \A i \in 1..Len(g) :
                  S[i].arg = g[i].key /\ S[i].val = g[i].val
            /\ \A i \in 1..Len(calls) :
                  calls[i].op = "setGainElement" =>
                      /\ i + 1 <= Len(calls)
                      /\ calls[i + 1].op = "getGainElement"
                      /\ calls[i + 1].arg = calls[i].arg

\* two elements were applied, LNA before VGA
C17_Witness ==
    /\ GainDone
    /\ Len(CallsOf("setGainElement")) = 2
    /\ CallsOf("setGainElement")[1].arg = "LNA"
    /\ CallsOf("setGainElement")[2].arg = "VGA"
    /\ CallsOf("setGainElement")[1].ret # 0

\* C19: until init returns 0 the recorded device handle, stream handle and
\* MTU are as soapysdr_input_create left them, also after a failing return;
\* a successful return records all three.
C19_RecordedOnlyOnSuccess ==
    /\ (ipc # "returned" \/ ret = -1) =>
          si_sdr = "NULL" /\ si_stream = "NULL" /\ max_tu = 0
    /\ (ipc = "returned" /\ ret = 0) =>
          /\ si_sdr = "dev" /\ si_stream = "stream"
          /\ max_tu = CallsOf("getStreamMTU")[1].ret

\* init failed at its last step, the stream setup
C19_Witness ==
    /\ ipc = "returned" /\ ret = -1
    /\ HasCall("setupStream")
    /\ si_sdr = "NULL" /\ si_stream = "NULL" /\ max_tu = 0
    /\ devOpen

\* ----------------------------------------------- worker claims, continued
ActivationFailed ==
    Len(tlog) >= 1 /\ tlog[1].op = "activateStream" /\ tlog[1].n # 0

ActivationSucceeded ==
    Len(tlog) >= 1 /\ tlog[1].op = "activateStream" /\ tlog[1].n = 0

ShutdownPcs == {"deactivate", "close", "unmake", "signal", "mark", "free_in",
                "free_out", "return"}

\* C12: do_exit only ever changes to 1, and the only worker step that
\* changes it is the failing activateStream; every other change is the
\* controller's, which leaves the worker where it is.
C12_WorkerWritesFlagOnlyOnActivationFailure ==
    [][ do_exit' # do_exit =>
            /\ do_exit' = 1
            /\ \/ tpc' = tpc /\ tlog' = tlog
               \/ /\ tpc = "activate"
                  /\ Len(tlog') = Len(tlog) + 1
                  /\ tlog'[Len(tlog')].op = "activateStream"
                  /\ tlog'[Len(tlog')].n # 0
      ]_vars

\* activation succeeded, a read failed, an empty read was pushed, and the
\* flag is still unset
C12_Witness ==
    /\ ActivationSucceeded
    /\ do_exit = 0 /\ tpc = "loop"
    /\ \E i \in 1..Len(tlog) : tlog[i].op = "readStream" /\ tlog[i].n < 0
    /\ \E i \in 1..Len(tlog) :
          tlog[i].op = "complex_samples_produce" /\ tlog[i].n = 0

\* C14: after a failed activation the flag is set, nothing is read,
\* converted or pushed, the worker is in the shutdown sequence, which it runs
\* from its first statement, and at the end both buffers, allocated before
\* the activation, are freed.
C14_ActivationFailureShutsDown ==
    ActivationFailed =>
        /\ do_exit = 1
        /\ pushed = << >>
        /\ \A i \in 2..Len(tlog) : tlog[i].op = ShutdownOrder[i - 1]
        /\ tpc \in ShutdownPcs
        /\ bufState.in # "none" /\ bufState.out # "none"
        /\ tpc = "return" =>
              /\ Len(tlog) = 1 + Len(ShutdownOrder)
              /\ bufState = [in |-> "freed", out |-> "freed"]

\* the worker has returned after a failed activation
C14_Witness ==
    /\ ActivationFailed
    /\ tpc = "return"
    /\ bufState = [in |-> "freed", out |-> "freed"]
    /\ do_exit = 1

\* C15: once do_exit is set the worker eventually returns, having run the
\* shutdown sequence; a read that was issued is followed by its test and,
\* when it delivered, its conversion and push, before the flag is looked at.
C15_CancelLeadsToStopped ==
    /\ (do_exit = 1) ~> (tpc = "return")
    /\ [][ (tpc \in {"read", "test", "produce"} /\ tpc' # tpc) =>
              \/ tpc = "read" /\ tpc' = "test"
              \/ tpc = "test" /\ tpc' \in {"loop", "produce"}
              \/ tpc = "produce" /\ tpc' = "loop"
         ]_vars

\* the flag was set with a read issued, and the worker is pushing its samples
C15_Witness ==
    /\ do_exit = 1 /\ atExit.set
    /\ tpc = "produce"
    /\ NumReads = atExit.reads + 1
    /\ samples_read > 0

\* C18: after do_exit is set at most one more read is made and at most one
\* more batch is pushed, and nothing is pushed after the downstream
\* shutdown signal.
C18_AtMostOneBatchAfterCancel ==
    /\ atExit.set =>
          /\ NumReads <= atExit.reads + 1
          /\ Len(pushed) <= atExit.pushes + 1
    /\ \A i, j \in 1..Len(tlog) :
          (tlog[i].op = "block_connection_one2one_shutdown" /\ i < j) =>
              tlog[j].op \notin {"readStream", "convert_sample_buffer",
                                 "complex_samples_produce"}

\* the flag was set during the second iteration, whose batch was still
\* pushed before the worker shut down
C18_Witness ==
    /\ tpc = "return"
    /\ atExit.set /\ atExit.reads >= 1
    /\ Len(pushed) = atExit.pushes + 1
    /\ Len(pushed) >= 2

=============================================================================
